---- MODULE Spec2Model ----
(***************************************************************************)
(* Model of src/uploader.py (YouTubeUploader and main).                    *)
(*                                                                         *)
(* Text files are sequences of one-character strings, so that reading a    *)
(* file into lines, stripping, and writing lines back are computed as the  *)
(* code computes them.  A character of DriveChars abbreviates a URL        *)
(* fragment that one of the patterns of extract_drive_file_id matches;     *)
(* "x" abbreviates URL text that none of them matches.                     *)
(*                                                                         *)
(* Left out: the 'date', 'ip_info', 'channel_id' and 'last_run_date'       *)
(* fields of the tracker and the ip_log file (written, never read back),   *)
(* and the video id the hosting API returns.                               *)
(***************************************************************************)
EXTENDS Integers, Sequences, FiniteSets, TLC

VARIABLES
    queue,          \* videos.txt: [exists, data]
    trackerFile,    \* tracker.json: [exists, uploaded_count, upload_history]
    disk,           \* video_<k>.mp4 for k in 1..videos_per_day: size in bytes, or Absent
    pc,             \* position of the process in main()/run()
    tracker,        \* self.tracker
    today_videos,   \* run(): today_videos
    i,              \* run(): loop index
    video_path,     \* run(): video_path (None, or k for "video_<k>.mp4")
    upload_results, \* run(): upload_results
    exitCode,       \* exit status of the process, -1 while it runs
    fetchLog,       \* history: arguments of the download_video calls of this run
    start,          \* history: queue and trackerFile when this run started
    events,         \* history: what ended or interrupted this run
    call,           \* argument record of a single function call
    ret             \* its result: <<>> before it returns, <<value>> after

vars == <<queue, trackerFile, disk, pc, tracker, today_videos, i, video_path,
          upload_results, exitCode, fetchLog, start, events, call, ret>>

-----------------------------------------------------------------------------
(* Bounds *)
MaxLen == 5         \* characters of a queue file given to the pruner alone
MaxCount == 3       \* largest count given to the pruner alone
MaxLines == 4       \* lines of the queue file a run starts from
MaxRuns == 2        \* session records the tracker may hold before runs stop
MaxIndex == 5       \* largest video_index given to calculate_schedule_time
MaxDay == 2         \* largest day number of datetime.now()

(* Program configuration, __init__ *)
videos_per_day == 3
schedule_hour == 20
schedule_minute == 0
schedule_gap_minutes == 15
schedule_days_ahead == 180
utc_offset_hours == 6
MinBytes == 1048576

-----------------------------------------------------------------------------
(* Text *)
DriveChars == {"u", "v"}
Chars == DriveChars \cup {"x", "#", " ", "\n"}

\* str.strip() without arguments removes leading and trailing whitespace
IsSpace(c) == c \in {" ", "\n"}

RECURSIVE lstrip(_)
lstrip(s) ==
    IF s = <<>> THEN <<>>
    ELSE IF IsSpace(Head(s)) THEN lstrip(Tail(s)) ELSE s

RECURSIVE rstrip(_)
rstrip(s) ==
    IF s = <<>> THEN <<>>
    ELSE IF IsSpace(s[Len(s)]) THEN rstrip(SubSeq(s, 1, Len(s) - 1)) ELSE s

strip(s) == rstrip(lstrip(s))

startswith(s, c) == Len(s) >= 1 /\ s[1] = c

\* f.readlines() / iteration over f: lines keep their "\n"; the last line
\* has none when the file does not end with one
RECURSIVE readlines(_)
readlines(s) ==
    IF s = <<>> THEN <<>>
    ELSE LET ends == {k \in 1..Len(s) : s[k] = "\n"}
             k == IF ends = {} THEN Len(s)
                  ELSE CHOOSE e \in ends : \A e2 \in ends : e <= e2
         IN <<SubSeq(s, 1, k)>> \o readlines(SubSeq(s, k + 1, Len(s)))

\* successive f.write(line)
RECURSIVE writelines(_)
writelines(ls) ==
    IF ls = <<>> THEN <<>> ELSE Head(ls) \o writelines(Tail(ls))

RECURSIVE SelectLines(_, _)
SelectLines(ls, keep) ==
    IF ls = <<>> THEN <<>>
    ELSE (IF keep[1] THEN <<Head(ls)>> ELSE <<>>)
         \o SelectLines(Tail(ls), Tail(keep))

-----------------------------------------------------------------------------
(* Queue reader and pruner *)

\* the test of the list comprehension of load_video_links
ReaderKeeps(line) == strip(line) /= <<>> /\ ~startswith(line, "#")

load_video_links(data) ==
    LET ls == readlines(data)
        kept == SelectLines(ls, [k \in 1..Len(ls) |-> ReaderKeeps(ls[k])])
    IN [k \in 1..Len(kept) |-> strip(kept[k])]

\* the test of the partition loop of remove_uploaded_links
IsVideoLine(line) == strip(line) /= <<>> /\ ~startswith(strip(line), "#")

video_lines(data) ==
    LET ls == readlines(data)
    IN SelectLines(ls, [k \in 1..Len(ls) |-> IsVideoLine(ls[k])])

other_lines(data) ==
    LET ls == readlines(data)
    IN SelectLines(ls, [k \in 1..Len(ls) |-> ~IsVideoLine(ls[k])])

remove_uploaded_links_always(file, count) ==
    IF ~file.exists THEN [ret |-> FALSE, file |-> file]
    ELSE LET vl == video_lines(file.data)
             n == IF count <= Len(vl) THEN count ELSE Len(vl)
             remaining_videos == SubSeq(vl, n + 1, Len(vl))
         IN [ret |-> TRUE,
             file |-> [exists |-> TRUE,
                       data |-> writelines(other_lines(file.data))
                                \o writelines(remaining_videos)]]

remove_uploaded_links(file, count) ==
    IF ~file.exists THEN [ret |-> FALSE, file |-> file]
    ELSE LET vl == video_lines(file.data)
         IN IF Len(vl) >= count
            THEN LET remaining_videos == SubSeq(vl, count + 1, Len(vl))
                 IN [ret |-> TRUE,
                     file |-> [exists |-> TRUE,
                               data |-> writelines(other_lines(file.data))
                                        \o writelines(remaining_videos)]]
            ELSE [ret |-> FALSE, file |-> file]

-----------------------------------------------------------------------------
(* Exceptions: what a call raises, [exc |-> "none"] when it returns *)
Returns == [exc |-> "none", code |-> 0]
SystemExit(c) == [exc |-> "SystemExit", code |-> c]
AnException == [exc |-> "Exception", code |-> 0]
KeyboardInterrupt == [exc |-> "KeyboardInterrupt", code |-> 0]

\* an 'except Exception' clause: SystemExit and KeyboardInterrupt derive
\* from BaseException and pass through it
ExceptException(e) == e.exc = "Exception"

\* authenticate(): outcome is what the token file and the API do
authenticate_returns_on_no_channel(outcome) ==
    IF outcome = "no_token" THEN SystemExit(1)
    ELSE LET body == CASE outcome = "api_error" -> AnException
                       [] outcome = "no_channel" -> Returns
                       [] outcome = "ok" -> Returns
         IN IF ExceptException(body) THEN SystemExit(1) ELSE body

authenticate(outcome) ==
    IF outcome = "no_token" THEN SystemExit(1)
    ELSE LET body == CASE outcome = "api_error" -> AnException
                       [] outcome = "no_channel" -> SystemExit(1)
                       [] outcome = "ok" -> Returns
         IN IF ExceptException(body) THEN SystemExit(1) ELSE body

AuthOutcomes == {"no_token", "api_error", "no_channel", "ok"}

\* main(): the exit status for what uploader.run() raised
main(e) ==
    CASE e.exc = "none" -> 0
      [] e.exc = "KeyboardInterrupt" -> 0
      [] e.exc = "Exception" -> 1
      [] e.exc = "SystemExit" -> e.code

-----------------------------------------------------------------------------
(* Tracker *)
NewTracker == [uploaded_count |-> 0, upload_history |-> <<>>]
NoTracker == [exists |-> FALSE, uploaded_count |-> 0, upload_history |-> <<>>]

load_tracker(file) ==
    IF file.exists
    THEN [uploaded_count |-> file.uploaded_count,
          upload_history |-> file.upload_history]
    ELSE NewTracker

save_tracker(tr) ==
    [exists |-> TRUE, uploaded_count |-> tr.uploaded_count,
     upload_history |-> tr.upload_history]

-----------------------------------------------------------------------------
(* Fetch *)
None == 0
Absent == -1
EmptyDisk == [k \in 1..videos_per_day |-> Absent]

\* re.search of the three patterns: <<>> is None, <<c>> the id found
RECURSIVE extract_drive_file_id(_)
extract_drive_file_id(url) ==
    IF url = <<>> THEN <<>>
    ELSE IF Head(url) \in DriveChars THEN <<Head(url)>>
    ELSE extract_drive_file_id(Tail(url))

\* g is what gdown.download does: raises, returns leaving the output path
\* as it was, or writes size bytes to it.  The result is the path
\* (k for "video_<k>.mp4", None) and the files on disk afterwards.
download_video_at_most(drive_url, index, g, d) ==
    IF extract_drive_file_id(drive_url) = <<>> THEN [path |-> None, disk |-> d]
    ELSE IF g.kind = "raise" THEN [path |-> None, disk |-> d]
    ELSE LET output == index + 1
             d1 == IF g.kind = "wrote" THEN [d EXCEPT ![output] = g.size] ELSE d
         IN IF d1[output] /= Absent
            THEN IF d1[output] <= 1 * MinBytes
                 THEN [path |-> None, disk |-> [d1 EXCEPT ![output] = Absent]]
                 ELSE [path |-> output, disk |-> d1]
            ELSE [path |-> None, disk |-> d1]

download_video(drive_url, index, g, d) ==
    IF extract_drive_file_id(drive_url) = <<>> THEN [path |-> None, disk |-> d]
    ELSE IF g.kind = "raise" THEN [path |-> None, disk |-> d]
    ELSE LET output == index + 1
             d1 == IF g.kind = "wrote" THEN [d EXCEPT ![output] = g.size] ELSE d
         IN IF d1[output] /= Absent
            THEN \* size_mb < 1 with size_mb = size / (1024 * 1024)
                 IF d1[output] < 1 * MinBytes
                 THEN [path |-> None, disk |-> [d1 EXCEPT ![output] = Absent]]
                 ELSE [path |-> output, disk |-> d1]
            ELSE [path |-> None, disk |-> d1]

Gdown(sizes) ==
    {[kind |-> "raise", size |-> 0], [kind |-> "nothing", size |-> 0]}
    \cup {[kind |-> "wrote", size |-> s] : s \in sizes}

-----------------------------------------------------------------------------
(* Schedule: a datetime is [day, hour, minute, second, microsecond], day
   counting the days of the calendar *)

\* datetime +/- timedelta, in minutes: the time of day carries into the day
PlusMinutes(dt, m) ==
    LET t == (dt.day * 24 + dt.hour) * 60 + dt.minute + m
    IN [dt EXCEPT !.day = t \div 1440,
                  !.hour = (t % 1440) \div 60,
                  !.minute = t % 60]

\* strftime('%Y-%m-%dT%H:%M:%S.000Z'): the microseconds are not printed,
\* the milliseconds are the literal 000
strftime(dt) ==
    [day |-> dt.day, hour |-> dt.hour, minute |-> dt.minute,
     second |-> dt.second, millis |-> 0]

calculate_schedule_time_no_mod(now, video_index) ==
    LET schedule_date == PlusMinutes(now, schedule_days_ahead * 1440)
        gap == video_index * schedule_gap_minutes
        minute0 == schedule_minute + gap
        hour == IF minute0 >= 60 THEN schedule_hour + minute0 \div 60
                ELSE schedule_hour
        minute == IF minute0 >= 60 THEN minute0 % 60 ELSE minute0
        schedule_datetime == [schedule_date EXCEPT !.hour = hour,
                                                   !.minute = minute,
                                                   !.second = 0,
                                                   !.microsecond = 0]
        utc_datetime == PlusMinutes(schedule_datetime, 0 - utc_offset_hours * 60)
    IN [utc |-> strftime(utc_datetime), local |-> schedule_datetime]

calculate_schedule_time(now, video_index) ==
    LET schedule_date == PlusMinutes(now, schedule_days_ahead * 1440)
        gap == (video_index % videos_per_day) * schedule_gap_minutes
        minute0 == schedule_minute + gap
        hour == IF minute0 >= 60 THEN schedule_hour + minute0 \div 60
                ELSE schedule_hour
        minute == IF minute0 >= 60 THEN minute0 % 60 ELSE minute0
        schedule_datetime == [schedule_date EXCEPT !.hour = hour,
                                                   !.minute = minute,
                                                   !.second = 0,
                                                   !.microsecond = 0]
        utc_datetime == PlusMinutes(schedule_datetime, 0 - utc_offset_hours * 60)
    IN [utc |-> strftime(utc_datetime), local |-> schedule_datetime]

-----------------------------------------------------------------------------
(* Upload *)
NoResult == [title |-> None]

\* title is Path(video_path).stem: the k of "video_<k>"
upload_video(path, video_index, api) ==
    IF api = "ok" THEN [title |-> path] ELSE NoResult

\* run(): if result: upload_results.append(result); uploaded_count += 1
record_result_counts_all(tr, results, result) ==
    [tracker |-> [tr EXCEPT !.uploaded_count = @ + 1],
     upload_results |-> IF result /= NoResult THEN Append(results, result)
                        ELSE results]

record_result(tr, results, result) ==
    IF result /= NoResult
    THEN [tracker |-> [tr EXCEPT !.uploaded_count = @ + 1],
          upload_results |-> Append(results, result)]
    ELSE [tracker |-> tr, upload_results |-> results]

\* run(): today_count, today_videos
Min(a, b) == IF a <= b THEN a ELSE b

take_batch_off_by_one(video_links) ==
    SubSeq(video_links, 2, Min(videos_per_day, Len(video_links)))

take_batch(video_links) ==
    SubSeq(video_links, 1, Min(videos_per_day, Len(video_links)))

\* run(): the session record appended to upload_history
update_tracker_if_any(tr, results) ==
    IF results = <<>> THEN tr
    ELSE [tr EXCEPT !.upload_history = Append(@, [videos |-> results])]

update_tracker(tr, results) ==
    [tr EXCEPT !.upload_history = Append(@, [videos |-> results])]

-----------------------------------------------------------------------------
(* Values of the variables while a part of the program is not running *)
NoFile == [exists |-> FALSE, data |-> <<>>]
NoCall == [op |-> "none"]

IdleRun ==
    /\ pc = "idle"
    /\ tracker = NewTracker
    /\ today_videos = <<>>
    /\ i = 0
    /\ video_path = None
    /\ upload_results = <<>>
    /\ exitCode = -1
    /\ fetchLog = <<>>
    /\ events = <<>>

runVars == <<pc, tracker, today_videos, i, video_path, upload_results,
             exitCode, fetchLog, start, events>>

-----------------------------------------------------------------------------
(* The pruner alone: any file content, any count *)
Texts(n) == UNION {[1..m -> Chars] : m \in 0..n}

InitPrune ==
    /\ IdleRun
    /\ trackerFile = NoTracker
    /\ disk = EmptyDisk
    /\ \E data \in Texts(MaxLen) :
          /\ queue = [exists |-> TRUE, data |-> data]
          /\ start = [queue |-> queue, trackerFile |-> NoTracker]
    /\ \E count \in 0..MaxCount : call = [op |-> "remove_uploaded_links", count |-> count]
    /\ ret = <<>>

CallRemoveUploadedLinks ==
    /\ call.op = "remove_uploaded_links"
    /\ ret = <<>>
    /\ LET r == remove_uploaded_links(queue, call.count)
       IN /\ queue' = r.file
          /\ ret' = <<r.ret>>
    /\ UNCHANGED <<trackerFile, disk, runVars, call>>

NextPrune == CallRemoveUploadedLinks

SpecPrune == InitPrune /\ [][NextPrune]_vars

-----------------------------------------------------------------------------
(* Reader and pruner on the same file: load_video_links, then
   remove_uploaded_links with a count the reader's list allows, then
   load_video_links again.  ret collects the three results. *)
InitQueue ==
    /\ IdleRun
    /\ trackerFile = NoTracker
    /\ disk = EmptyDisk
    /\ \E data \in Texts(MaxLen) :
          /\ queue = [exists |-> TRUE, data |-> data]
          /\ start = [queue |-> queue, trackerFile |-> NoTracker]
    /\ \E count \in 0..MaxCount : call = [op |-> "read_prune_read", count |-> count]
    /\ ret = <<>>

QueueRead ==
    /\ call.op = "read_prune_read"
    /\ Len(ret) = 0
    /\ ret' = <<load_video_links(queue.data)>>
    /\ UNCHANGED <<queue, trackerFile, disk, runVars, call>>

QueuePrune ==
    /\ call.op = "read_prune_read"
    /\ Len(ret) = 1
    /\ call.count <= Len(ret[1])
    /\ LET r == remove_uploaded_links(queue, call.count)
       IN /\ queue' = r.file
          /\ ret' = Append(ret, r.ret)
    /\ UNCHANGED <<trackerFile, disk, runVars, call>>

QueueReadAgain ==
    /\ call.op = "read_prune_read"
    /\ Len(ret) = 2
    /\ ret' = Append(ret, load_video_links(queue.data))
    /\ UNCHANGED <<queue, trackerFile, disk, runVars, call>>

NextQueue ==
    \/ QueueRead
    \/ QueuePrune
    \/ QueueReadAgain

SpecQueue == InitQueue /\ [][NextQueue]_vars

-----------------------------------------------------------------------------
(* calculate_schedule_time alone: any clock reading, any index *)
Clock ==
    [day : 0..MaxDay, hour : {0, 5, 6, 23}, minute : {0, 59},
     second : {0, 59}, microsecond : {0, 999999}]

InitSchedule ==
    /\ IdleRun
    /\ queue = NoFile
    /\ trackerFile = NoTracker
    /\ disk = EmptyDisk
    /\ start = [queue |-> queue, trackerFile |-> trackerFile]
    /\ \E now \in Clock, video_index \in 0..MaxIndex :
          call = [op |-> "calculate_schedule_time", now |-> now,
                  video_index |-> video_index]
    /\ ret = <<>>

CallCalculateScheduleTime ==
    /\ call.op = "calculate_schedule_time"
    /\ ret = <<>>
    /\ ret' = <<calculate_schedule_time(call.now, call.video_index)>>
    /\ UNCHANGED <<queue, trackerFile, disk, runVars, call>>

NextSchedule == CallCalculateScheduleTime

SpecSchedule == InitSchedule /\ [][NextSchedule]_vars

-----------------------------------------------------------------------------
(* download_video alone: any URL, any size, with or without an older file
   at the output path *)
Urls == {<<"u">>, <<"x">>, <<"#", "u">>, <<"x", "v">>}
Sizes == {0, 1, MinBytes - 1, MinBytes, MinBytes + 1, 2 * MinBytes}

InitDownload ==
    /\ IdleRun
    /\ queue = NoFile
    /\ trackerFile = NoTracker
    /\ disk \in [1..videos_per_day -> {Absent, MinBytes - 1, MinBytes}]
    /\ start = [queue |-> queue, trackerFile |-> trackerFile]
    /\ \E url \in Urls, index \in 0..(videos_per_day - 1), g \in Gdown(Sizes) :
          call = [op |-> "download_video", drive_url |-> url, index |-> index,
                  gdown |-> g, disk |-> disk]
    /\ ret = <<>>

CallDownloadVideo ==
    /\ call.op = "download_video"
    /\ ret = <<>>
    /\ LET r == download_video(call.drive_url, call.index, call.gdown, disk)
       IN /\ disk' = r.disk
          /\ ret' = <<r.path>>
    /\ UNCHANGED <<queue, trackerFile, runVars, call>>

NextDownload == CallDownloadVideo

SpecDownload == InitDownload /\ [][NextDownload]_vars

-----------------------------------------------------------------------------
(* The process: main() and run(), one run after another.  A run starts
   from a queue file of up to MaxLines lines, each a link with a Drive id,
   a link without one, or a comment; the last line may lack its newline. *)
RunLines == {<<"u">>, <<"x">>, <<"#">>}
RunSizes == {MinBytes - 1, MinBytes}

RECURSIVE JoinLines(_, _)
JoinLines(bodies, finalNewline) ==
    IF bodies = <<>> THEN <<>>
    ELSE IF Len(bodies) = 1
         THEN Head(bodies) \o (IF finalNewline THEN <<"\n">> ELSE <<>>)
         ELSE Head(bodies) \o <<"\n">> \o JoinLines(Tail(bodies), finalNewline)

RunQueues ==
    {NoFile} \cup
    {[exists |-> TRUE, data |-> JoinLines(bodies, nl)] :
        bodies \in UNION {[1..m -> RunLines] : m \in 0..MaxLines},
        nl \in BOOLEAN}

Init ==
    /\ IdleRun
    /\ queue \in RunQueues
    /\ trackerFile = NoTracker
    /\ disk = EmptyDisk
    /\ start = [queue |-> queue, trackerFile |-> trackerFile]
    /\ call = NoCall
    /\ ret = <<>>

Running == pc \notin {"idle", "exited"}

\* the process ends: what run() raised decides the exit status
Exit(e) ==
    /\ pc' = "exited"
    /\ exitCode' = main(e)

\* main() starts; __init__ and get_my_ip_info leave the files alone
StartRun ==
    /\ call = NoCall
    /\ pc \in {"idle", "exited"}
    /\ Len(trackerFile.upload_history) < MaxRuns
    /\ pc' = "authenticate"
    /\ tracker' = NewTracker
    /\ today_videos' = <<>>
    /\ i' = 0
    /\ video_path' = None
    /\ upload_results' = <<>>
    /\ exitCode' = -1
    /\ fetchLog' = <<>>
    /\ events' = <<>>
    /\ start' = [queue |-> queue, trackerFile |-> trackerFile]
    /\ UNCHANGED <<queue, trackerFile, disk, call, ret>>

Authenticate ==
    /\ pc = "authenticate"
    /\ \E outcome \in AuthOutcomes :
          LET e == authenticate(outcome)
          IN /\ IF e = Returns
                THEN pc' = "load_tracker" /\ UNCHANGED exitCode
                ELSE Exit(e)
             /\ events' = IF outcome = "ok" THEN events
                          ELSE Append(events, outcome)
    /\ UNCHANGED <<queue, trackerFile, disk, tracker, today_videos, i,
                   video_path, upload_results, fetchLog, start,
                   call, ret>>

LoadTracker ==
    /\ pc = "load_tracker"
    /\ tracker' = load_tracker(trackerFile)
    /\ pc' = "load_video_links"
    /\ UNCHANGED <<queue, trackerFile, disk, today_videos, i, video_path,
                   upload_results, exitCode, fetchLog, start, events,
                   call, ret>>

LoadVideoLinks ==
    /\ pc = "load_video_links"
    /\ IF ~queue.exists
       THEN /\ Exit(SystemExit(1))
            /\ events' = Append(events, "no_queue")
            /\ UNCHANGED today_videos
       ELSE LET video_links == load_video_links(queue.data)
            IN IF video_links = <<>>
               THEN /\ Exit(Returns)
                    /\ events' = Append(events, "empty")
                    /\ UNCHANGED today_videos
               ELSE /\ today_videos' = take_batch(video_links)
                    /\ pc' = "download"
                    /\ UNCHANGED <<exitCode, events>>
    /\ UNCHANGED <<queue, trackerFile, disk, tracker, i, video_path,
                   upload_results, fetchLog, start, call, ret>>

\* where the loop goes after item k - 1
NextItem(k) == IF k < Len(today_videos) THEN "download" ELSE "prune"

Download ==
    /\ pc = "download"
    /\ \E g \in Gdown(RunSizes) :
          LET r == download_video(today_videos[i + 1], i, g, disk)
          IN /\ disk' = r.disk
             /\ video_path' = r.path
             /\ IF r.path = None
                THEN i' = i + 1 /\ pc' = NextItem(i + 1)
                ELSE i' = i /\ pc' = "upload"
    /\ fetchLog' = Append(fetchLog, today_videos[i + 1])
    /\ UNCHANGED <<queue, trackerFile, tracker, today_videos, upload_results,
                   exitCode, start, events, call, ret>>

Upload ==
    /\ pc = "upload"
    /\ \E api \in {"ok", "error"} :
          LET r == record_result(tracker, upload_results,
                                 upload_video(video_path, i, api))
          IN /\ tracker' = r.tracker
             /\ upload_results' = r.upload_results
    /\ disk' = [disk EXCEPT ![video_path] = Absent]
    /\ video_path' = None
    /\ i' = i + 1
    /\ pc' = NextItem(i + 1)
    /\ UNCHANGED <<queue, trackerFile, today_videos, exitCode, fetchLog,
                   start, events, call, ret>>

Prune ==
    /\ pc = "prune"
    /\ queue' = IF upload_results /= <<>>
                THEN remove_uploaded_links(queue, Len(upload_results)).file
                ELSE queue
    /\ pc' = "persist"
    /\ UNCHANGED <<trackerFile, disk, tracker, today_videos, i, video_path,
                   upload_results, exitCode, fetchLog, start, events,
                   call, ret>>

Persist ==
    /\ pc = "persist"
    /\ tracker' = update_tracker(tracker, upload_results)
    /\ trackerFile' = save_tracker(tracker')
    /\ pc' = "summary"
    /\ UNCHANGED <<queue, disk, today_videos, i, video_path, upload_results,
                   exitCode, fetchLog, start, events, call, ret>>

\* the ip log, the summary, and the return to main()
Summary ==
    /\ pc = "summary"
    /\ Exit(Returns)
    /\ UNCHANGED <<queue, trackerFile, disk, tracker, today_videos, i,
                   video_path, upload_results, fetchLog, start, events,
                   call, ret>>

\* Ctrl-C while run() is in progress
Interrupt ==
    /\ Running
    /\ Exit(KeyboardInterrupt)
    /\ events' = Append(events, "interrupt")
    /\ UNCHANGED <<queue, trackerFile, disk, tracker, today_videos, i,
                   video_path, upload_results, fetchLog, start,
                   call, ret>>

Next ==
    \/ StartRun
    \/ Authenticate
    \/ LoadTracker
    \/ LoadVideoLinks
    \/ Download
    \/ Upload
    \/ Prune
    \/ Persist
    \/ Summary
    \/ Interrupt

Spec == Init /\ [][Next]_vars

-----------------------------------------------------------------------------
(* Properties of remove_uploaded_links, under SpecPrune *)

Pruned == call.op = "remove_uploaded_links" /\ ret /= <<>>

\* C1: for every file content and every K up to the number of link lines,
\* after remove_uploaded_links(K) the file's lines are the original
\* comment/blank lines, verbatim and in order, followed by the original
\* link lines without the first K, each on a line of its own.
C1_PruneKeepsLines ==
    (Pruned /\ call.count <= Len(video_lines(start.queue.data)))
    => LET vl == video_lines(start.queue.data)
       IN readlines(queue.data)
            = other_lines(start.queue.data) \o SubSeq(vl, call.count + 1, Len(vl))

\* C5: with K greater than the number of link lines the call returns False
\* and the file content is unchanged.
C5_TooManyIsNoop ==
    (Pruned /\ call.count > Len(video_lines(start.queue.data)))
    => (ret = <<FALSE>> /\ queue = start.queue)

C5_Witness ==
    /\ Pruned
    /\ Len(video_lines(start.queue.data)) >= 1
    /\ other_lines(start.queue.data) /= <<>>
    /\ call.count > Len(video_lines(start.queue.data))

-----------------------------------------------------------------------------
(* Reader and pruner together, under SpecQueue *)

\* C11: after remove_uploaded_links(K) succeeds, with K at most the number
\* of links load_video_links returned, load_video_links returns the list it
\* returned before without its first K elements.  Stated for files that
\* are empty or end with a newline, lines with leading whitespace before
\* '#' included.
C11_ReaderAgreesWithPruner ==
    (/\ call.op = "read_prune_read"
     /\ Len(ret) = 3
     /\ ret[2] = TRUE
     /\ start.queue.data /= <<>>
            => start.queue.data[Len(start.queue.data)] = "\n")
    => ret[3] = SubSeq(ret[1], call.count + 1, Len(ret[1]))

-----------------------------------------------------------------------------
(* Properties of a run, under Spec *)

\* the links the reader saw when the run started
LinksAtStart == load_video_links(start.queue.data)

\* the batch positions whose fetch and upload both succeeded
Succeeded == {upload_results[k].title : k \in DOMAIN upload_results}

RECURSIVE SumVideos(_)
SumVideos(history) ==
    IF history = <<>> THEN 0
    ELSE Len(Head(history).videos) + SumVideos(Tail(history))

\* every line ends with a newline and reader and pruner agree on which
\* lines are links
PlainQueue(data) ==
    /\ data /= <<>> => data[Len(data)] = "\n"
    /\ \A k \in DOMAIN readlines(data) :
          ReaderKeeps(readlines(data)[k]) <=> IsVideoLine(readlines(data)[k])

\* C2: when the batch is done and the queue pruned, the links left in the
\* queue file are the links the run started with minus the ones that were
\* fetched and uploaded successfully, so every failed link is still there.
\* Stated for queue files of newline-terminated lines without indented
\* comments, where pruning itself keeps every line intact.
C2_FailedLinksStay ==
    (pc = "summary" /\ PlainQueue(start.queue.data))
    => load_video_links(queue.data)
         = SelectLines(LinksAtStart,
                       [k \in 1..Len(LinksAtStart) |-> k \notin Succeeded])

\* C3: the uploaded_count of the tracker file equals the number of upload
\* results in the 'videos' lists of all its upload_history records.
C3_CountMatchesHistory ==
    trackerFile.uploaded_count = SumVideos(trackerFile.upload_history)

C3_Witness ==
    /\ pc = "exited"
    /\ "interrupt" \in {events[k] : k \in DOMAIN events}
    /\ fetchLog /= <<>>
    /\ Len(trackerFile.upload_history) >= 2
    /\ trackerFile.uploaded_count >= 2
    /\ \E k \in DOMAIN trackerFile.upload_history :
          trackerFile.upload_history[k].videos = <<>>

\* C4: a run over n links with s successful items leaves n - s links in
\* the queue file and has raised the saved uploaded_count by s.
C4_PrunesAndCountsSuccesses ==
    pc = "summary"
    => /\ Len(load_video_links(queue.data))
            = Len(LinksAtStart) - Len(upload_results)
       /\ trackerFile.uploaded_count
            = start.trackerFile.uploaded_count + Len(upload_results)

\* C8: upload_history changes only in the persistence step, which appends
\* exactly one record (the run's results, also when there are none) after
\* the earlier records; no other step writes the tracker file, so a run
\* that ends any other way leaves it as it found it.
C8_HistoryAppendOnly ==
    [][LET h == trackerFile.upload_history
           h2 == trackerFile'.upload_history
       IN /\ (pc = "persist" /\ pc' = "summary")
                => /\ h2 = Append(h, [videos |-> upload_results])
                   /\ Len(h2) = Len(start.trackerFile.upload_history) + 1
          /\ ~(pc = "persist" /\ pc' = "summary")
                => trackerFile' = trackerFile
          /\ (pc' = "exited" /\ pc /= "summary")
                => trackerFile' = start.trackerFile]_vars

C8_Witness ==
    /\ pc = "summary"
    /\ upload_results = <<>>
    /\ Len(trackerFile.upload_history) = 2
    /\ trackerFile.upload_history[1].videos /= <<>>
    /\ trackerFile.upload_history[2].videos = <<>>

\* C9: a missing credential file, a failed authentication (no channel
\* included) or a missing queue file ends the process at once with status
\* 1, no item fetched or uploaded and both files as the run found them; an
\* empty queue and a user interrupt end it with status 0.
Happened(ev) == ev \in {events[k] : k \in DOMAIN events}

C9_FatalSetupExits ==
    /\ \A ev \in {"no_token", "api_error", "no_channel", "no_queue"} :
          Happened(ev)
          => /\ pc = "exited"
             /\ exitCode = 1
             /\ fetchLog = <<>> /\ i = 0 /\ upload_results = <<>>
             /\ queue = start.queue
             /\ trackerFile = start.trackerFile
    /\ \A ev \in {"empty", "interrupt"} :
          Happened(ev) => (pc = "exited" /\ exitCode = 0)

C9_Witness ==
    /\ Happened("no_channel")
    /\ trackerFile.exists
    /\ load_video_links(queue.data) /= <<>>

\* C10: the batch is the first min(videos_per_day, n) links of the file;
\* the fetches made so far are the batch's links in order, one each; when
\* the loop is over every batch link has had its fetch, whatever failed;
\* an upload is attempted only on the file the item's fetch accepted.
C10_BatchInOrder ==
    LET batch == SubSeq(LinksAtStart, 1, Min(videos_per_day, Len(LinksAtStart)))
    IN /\ pc \in {"download", "upload", "prune", "persist", "summary"}
             => today_videos = batch
       /\ Len(fetchLog) <= Len(batch)
       /\ fetchLog = SubSeq(batch, 1, Len(fetchLog))
       /\ pc \in {"prune", "persist", "summary"} => fetchLog = batch
       /\ pc = "upload"
             => /\ video_path = Len(fetchLog)
                /\ disk[video_path] >= MinBytes

C10_Witness ==
    /\ pc = "prune"
    /\ Len(LinksAtStart) = 4
    /\ fetchLog[1] = <<"x">>
    /\ upload_results = <<[title |-> 3]>>

-----------------------------------------------------------------------------
(* Properties of calculate_schedule_time, under SpecSchedule *)

Scheduled == call.op = "calculate_schedule_time" /\ ret /= <<>>

MinuteOfTime(dt) == (dt.day * 24 + dt.hour) * 60 + dt.minute

\* C6: the local publish time is on the day 180 days after today, at
\* minute (base_minute + (i mod videos_per_day) * gap) mod 60 of hour
\* base_hour + floor((base_minute + (i mod videos_per_day) * gap) / 60),
\* second zero; the UTC time is that time minus 6 hours.
C6_ScheduleTime ==
    Scheduled
    => LET r == ret[1]
           off == 0 + (call.video_index % 3) * 15
       IN /\ r.local.day = call.now.day + 180
          /\ r.local.minute = off % 60
          /\ r.local.hour = 20 + off \div 60
          /\ r.local.second = 0 /\ r.local.microsecond = 0
          /\ MinuteOfTime(r.utc) = MinuteOfTime(r.local) - 6 * 60
          /\ r.utc.hour \in 0..23 /\ r.utc.minute \in 0..59
          /\ r.utc.second = 0 /\ r.utc.millis = 0

C6_Witness ==
    /\ Scheduled
    /\ call.video_index = 4
    /\ call.now.hour = 23 /\ call.now.minute = 59
    /\ ret[1].local.minute = 15

-----------------------------------------------------------------------------
(* Properties of download_video, under SpecDownload *)

Downloaded == call.op = "download_video" /\ ret /= <<>>

\* C7: when the download leaves a file of size bytes at the output path,
\* below 1048576 bytes download_video returns None and the file is gone;
\* at 1048576 bytes or more it returns the path and the file is kept.
C7_SizeThreshold ==
    (/\ Downloaded
     /\ extract_drive_file_id(call.drive_url) /= <<>>
     /\ call.gdown.kind = "wrote")
    => LET size == call.gdown.size
           output == call.index + 1
       IN /\ size < 1048576 => (ret = <<None>> /\ disk[output] = Absent)
          /\ size >= 1048576 => (ret = <<output>> /\ disk[output] = size)

C7_Witness ==
    /\ Downloaded
    /\ call.gdown = [kind |-> "wrote", size |-> 1048576]
    /\ call.disk[call.index + 1] = MinBytes - 1
    /\ ret = <<call.index + 1>>
====
